---- MODULE Spec2Model ----
(***************************************************************************)
(* Model of the tagged-error matching of ts-pattern/src/tagged-error:      *)
(* handle(value) builds a Handler around one input; Handler.when(cases)    *)
(* classifies the input (TaggedError / Error / anything else) and applies  *)
(* one entry of the caller's case table.                                   *)
(*                                                                         *)
(* JavaScript values are flat records of strings so that any two values    *)
(* can be compared: t is the typeof, cls the class of an object, id its    *)
(* identity (or the primitive's value), tag the #tag of a TaggedError,     *)
(* msg the parts of message, cause the id of the cause.                    *)
(***************************************************************************)
EXTENDS Naturals, Sequences, FiniteSets

VARIABLES pc, input, cases, result, invoked, reads, calls, registered

vars == <<pc, input, cases, result, invoked, reads, calls, registered>>

----------------------------------------------------------------------------
(* Bounds *)

\* how many names of TagNames are tags of TaggedError classes
NumTags == 5

\* the largest number of entries the caller writes into one case table
MaxEntries == 3

\* the largest number of when calls made with one case table
MaxCalls == 2

----------------------------------------------------------------------------
(* JavaScript values *)

Val(t, cls, id, tag, msg, cause) ==
  [t |-> t, cls |-> cls, id |-> id, tag |-> tag, msg |-> msg, cause |-> cause]

Undefined == Val("undefined", "", "undefined", "", <<>>, "")

Null == Val("object", "", "null", "", <<>>, "")

Str(s) == Val("string", "", s, "", <<>>, "")

Num42 == Val("number", "", "42", "", <<>>, "")

StrThrow == Str("throw")

StrNull == Str("null")

StrPipe == Str("pipe")

TypeOf(v) == v.t

\* a bug: the prototype chain of a TaggedError does not reach Error
InstanceOfErrorNotTagged(v) == v.cls \in {"Error", "TypeError"}

\* v instanceof Error
InstanceOfError(v) == v.cls \in {"Error", "TypeError", "TaggedError"}

\* v instanceof TaggedError
InstanceOfTaggedError(v) == v.cls = "TaggedError"

\* new Error(message)
NewError(id, message) == Val("object", "Error", id, "", <<message>>, "")

\* new TypeError(message, { cause })
NewTypeError(msg, cause) == Val("object", "TypeError", "fresh", "", msg, cause)

\* a bug: the constructor does not store the tag it is given
TaggedErrorConstructorDropsTag(tag, id, message) ==
  Val("object", "TaggedError", id, "", <<message>>, "")

\* new X() of a class X extends TaggedError whose constructor calls
\* super(tag, message): new.target is set and the tag is stored in #tag
TaggedErrorConstructor(tag, id, message) ==
  Val("object", "TaggedError", id, tag, <<message>>, "")

\* the tag getter
TagOf(e) == e.tag

\* error.name: no class of the repository redefines prototype.name
NameOf(e) == IF e.cls = "TypeError" THEN "TypeError" ELSE "Error"

----------------------------------------------------------------------------
(* The universe of tags, keys, inputs and handlers *)

TagNames ==
  <<"TimeoutError", "constructor", "error", "value", "default",
    "HttpError", "toString">>

Tags == {TagNames[i] : i \in 1..NumTags}

Keys == Tags \cup {"error", "value", "default"}

\* a callback the caller wrote under key k; it either returns or throws
Callback(k, behaviour) == Val("function", "Function", k, "", <<behaviour>>, "")

\* the function every object literal inherits as cases.constructor
ObjectCtor == Val("function", "Function", "Object", "", <<"native">>, "")

\* the function every object literal inherits as cases.toString
ObjectToString ==
  Val("function", "Function", "toString", "", <<"native">>, "")

CallerSupplied(f) == f.t = "function" /\ f.msg # <<"native">>

\* what a caller may write under key k
HandlerValues(k) ==
  {StrThrow, StrNull, StrPipe, Num42,
   Callback(k, "returns"), Callback(k, "throws")}

\* a function given to handle(), as in handle(() => doSomething())
Producer == Val("function", "Function", "producer", "", <<"returns">>, "")

\* a producer that raises: handle(() => { throw new RangeError('x') })
ThrowingProducer ==
  Val("function", "Function", "throwingProducer", "", <<"throws">>, "")

\* a pending result: handle(fetchSomething()), a Promise not yet settled
PendingResult == Val("object", "Promise", "pending", "", <<>>, "")

ValueInputs ==
  {Str("ok"), Null, Undefined, Producer, ThrowingProducer, PendingResult}

PlainErrors == {NewError("boom1", "boom")}

\* the identities of the instances built with tag t
InstanceIds(t) ==
  IF t = "TimeoutError" THEN {"TimeoutError", "TimeoutError#2"} ELSE {t}

\* the instances built with tag t by subclasses that extend the exported
\* class and pass t to super
InstancesOf(t) == {TaggedErrorConstructor(t, id, "") : id \in InstanceIds(t)}

TaggedErrors == UNION {InstancesOf(t) : t \in Tags}

Inputs == ValueInputs \cup PlainErrors \cup TaggedErrors

\* the properties an object literal inherits from Object.prototype
ObjectPrototype ==
  [k \in {"constructor", "toString"} |->
     IF k = "constructor" THEN ObjectCtor ELSE ObjectToString]

\* the object literal {}
EmptyCases == [k \in {} |-> Undefined]

\* cases[key]: an own entry, else an inherited property, else undefined
Get(c, key) ==
  IF key \in DOMAIN c THEN c[key]
  ELSE IF key \in DOMAIN ObjectPrototype THEN ObjectPrototype[key]
  ELSE Undefined

----------------------------------------------------------------------------
(* Outcomes of a call *)

NoResult == [kind |-> "none", val |-> Undefined]

Return(v) == [kind |-> "return", val |-> v]

Throw(v) == [kind |-> "throw", val |-> v]

\* what callback f returns for arg
CbResult(f, arg) ==
  Val("string", "", f.id, "", <<"result of", f.id, "for", arg.id>>, "")

\* what a throwing callback raises: new Error('Unexpected error', {cause})
CbError(f, arg) ==
  Val("object", "Error", "raised", "", <<"Unexpected error">>, arg.id)

\* handler(input): the outcome and the invocation it leaves behind; Object
\* returns its argument, toString called without a receiver names undefined
Call(f, arg) ==
  [out |-> IF f = ObjectCtor THEN Return(arg)
           ELSE IF f = ObjectToString THEN Return(Str("[object Undefined]"))
           ELSE IF f.msg = <<"throws">> THEN Throw(CbError(f, arg))
           ELSE Return(CbResult(f, arg)),
   invoked |-> << [fn |-> f, arg |-> arg] >>]

NoCall(out) == [out |-> out, invoked |-> <<>>]

\* TaggedError(tag), the export called as a function: the export is the
\* class itself under a type cast, and a class is not callable without new,
\* so the extends clause class X extends TaggedError(tag) makes no class
TaggedErrorCall(tag) ==
  Throw(NewTypeError(
    <<"Class constructor TaggedErrorConstructor cannot be invoked without ",
      "'new'">>, ""))

----------------------------------------------------------------------------
(* Handler.when *)

\* a bug: the 'error' entry is put before the tag's entry (push for unshift)
HandlersErrorFirst(in, c) ==
  LET base == << [tag |-> "Error", handler |-> Get(c, "error")] >>
  IN IF InstanceOfTaggedError(in)
     THEN base \o << [tag |-> TagOf(in), handler |-> Get(c, TagOf(in))] >>
     ELSE base

\* a bug: an error no entry handles falls through to the 'value' entry
HandlersThenValue(in, c) ==
  LET base == << [tag |-> "Error", handler |-> Get(c, "error")],
                 [tag |-> "value", handler |-> Get(c, "value")] >>
  IN IF InstanceOfTaggedError(in)
     THEN << [tag |-> TagOf(in), handler |-> Get(c, TagOf(in))] >> \o base
     ELSE base

\* the candidate list: the tag's entry first for a TaggedError, then 'error'
Handlers(in, c) ==
  LET base == << [tag |-> "Error", handler |-> Get(c, "error")] >>
  IN IF InstanceOfTaggedError(in)
     THEN << [tag |-> TagOf(in), handler |-> Get(c, TagOf(in))] >> \o base
     ELSE base

\* the keys of the table that the error branch reads
HandlerReads(in) ==
  IF InstanceOfTaggedError(in) THEN <<"error", TagOf(in)>> ELSE <<"error">>

\* a bug: 'throw' raises a new error around the input
ApplyHandlerWrapsThrow(in, tag, handler) ==
  IF handler = StrThrow
  THEN NoCall(Throw(NewTypeError(<<"Rethrown">>, in.id)))
  ELSE IF handler = StrNull THEN NoCall(Return(Null))
  ELSE IF TypeOf(handler) = "function" THEN Call(handler, in)
  ELSE NoCall(Throw(NewTypeError(
         <<"Invalid handler provided for ", tag>>, "")))

\* a bug: 'null' is taken for an ignored entry and gives undefined
ApplyHandlerNullUndefined(in, tag, handler) ==
  IF handler = StrThrow THEN NoCall(Throw(in))
  ELSE IF handler = StrNull THEN NoCall(Return(Undefined))
  ELSE IF TypeOf(handler) = "function" THEN Call(handler, in)
  ELSE NoCall(Throw(NewTypeError(
         <<"Invalid handler provided for ", tag>>, "")))

\* the body of the loop for a candidate that is not undefined
ApplyHandler(in, tag, handler) ==
  IF handler = StrThrow THEN NoCall(Throw(in))
  ELSE IF handler = StrNull THEN NoCall(Return(Null))
  ELSE IF TypeOf(handler) = "function" THEN Call(handler, in)
  ELSE NoCall(Throw(NewTypeError(
         <<"Invalid handler provided for ", tag>>, "")))

\* a bug: an error no entry handles is thrown as it is
UnhandledErrorRethrows(in) == NoCall(Throw(in))

\* the throw after the loop: a new TypeError with the input as its cause
UnhandledError(in) ==
  NoCall(Throw(NewTypeError(
    <<"Unhandled error: [", NameOf(in), ": ">> \o in.msg \o <<"]">>,
    in.id)))

\* the loop over the candidates, from position i, and the throw after it
RECURSIVE Dispatch(_, _, _)
Dispatch(in, hs, i) ==
  IF i > Len(hs) THEN UnhandledError(in)
  ELSE IF TypeOf(hs[i].handler) = "undefined" THEN Dispatch(in, hs, i + 1)
  ELSE ApplyHandler(in, hs[i].tag, hs[i].handler)

\* the branch for an input that is not an Error
DefaultBranch(in, c) ==
  LET defaultHandler == Get(c, "default")
  IN IF TypeOf(defaultHandler) = "undefined"
     THEN NoCall(Throw(NewTypeError(
            <<"No default handler provided for value">>, "")))
     ELSE IF TypeOf(defaultHandler) # "function"
     THEN NoCall(Throw(NewTypeError(
            <<"Invalid default handler provided">>, "")))
     ELSE Call(defaultHandler, in)

\* when(cases) on a Handler holding in
WhenOutcome(in, c) ==
  IF InstanceOfError(in)
  THEN Dispatch(in, Handlers(in, c), 1)
  ELSE DefaultBranch(in, c)

WhenReads(in) ==
  IF InstanceOfError(in) THEN HandlerReads(in) ELSE <<"default">>

----------------------------------------------------------------------------
(* The state machine: a caller builds a Handler, writes a case table and   *)
(* calls when                                                              *)

Init ==
  /\ pc = "start"
  /\ input = Undefined
  /\ cases = EmptyCases
  /\ result = NoResult
  /\ invoked = <<>>
  /\ reads = <<>>
  /\ calls = 0
  /\ registered = <<>>

\* handle(value): new Handler(value)
Handle(v) ==
  /\ pc' = "handler"
  /\ input' = v
  /\ cases' = EmptyCases
  /\ result' = NoResult
  /\ invoked' = <<>>
  /\ reads' = <<>>
  /\ calls' = 0
  /\ registered' = <<>>

\* the caller writes one more entry of the object literal passed to when
SetEntry(k, h) ==
  /\ pc = "handler"
  /\ k \notin DOMAIN cases
  /\ Cardinality(DOMAIN cases) < MaxEntries
  /\ cases' = [x \in DOMAIN cases \cup {k} |-> IF x = k THEN h ELSE cases[x]]
  /\ UNCHANGED <<pc, input, result, invoked, reads, calls, registered>>

\* a bug: when consumes the 'error' entry of the table it is given
WhenConsumesEntry ==
  /\ pc \in {"handler", "returned"}
  /\ calls < MaxCalls
  /\ pc' = "returned"
  /\ result' = WhenOutcome(input, cases).out
  /\ invoked' = WhenOutcome(input, cases).invoked
  /\ reads' = WhenReads(input)
  /\ calls' = calls + 1
  /\ cases' = [k \in DOMAIN cases \ {"error"} |-> cases[k]]
  /\ UNCHANGED <<input, registered>>

\* this.when(cases), the first call with this table or a later one
When ==
  /\ pc \in {"handler", "returned"}
  /\ calls < MaxCalls
  /\ pc' = "returned"
  /\ result' = WhenOutcome(input, cases).out
  /\ invoked' = WhenOutcome(input, cases).invoked
  /\ reads' = WhenReads(input)
  /\ calls' = calls + 1
  /\ UNCHANGED <<input, cases, registered>>

\* the caller starts another object literal for the same Handler
NewCases ==
  /\ pc = "returned"
  /\ pc' = "handler"
  /\ cases' = EmptyCases
  /\ result' = NoResult
  /\ invoked' = <<>>
  /\ reads' = <<>>
  /\ calls' = 0
  /\ UNCHANGED <<input, registered>>

Next ==
  \/ \E v \in Inputs : Handle(v)
  \/ \E k \in Keys : \E h \in HandlerValues(k) : SetEntry(k, h)
  \/ When
  \/ NewCases

Spec == Init /\ [][Next]_vars

TypeOK ==
  /\ pc \in {"start", "handler", "returned"}
  /\ DOMAIN cases \subseteq Keys
  /\ result.kind \in {"none", "return", "throw"}
  /\ Len(invoked) <= 1

----------------------------------------------------------------------------
(* Matching with two arguments: handle(error, cases) of handle.ts and the  *)
(* static TaggedError.match(error, cases)                                  *)

\* new Error(message), message given by its parts
NewErrorOf(msg) == Val("object", "Error", "fresh", "", msg, "")

\* key in cases: an own entry or an inherited property
In(c, key) == key \in DOMAIN c \/ key \in DOMAIN ObjectPrototype

\* cases[key](error): a method call, whose receiver is the table
CallMethod(f, arg) ==
  IF f = ObjectToString
  THEN [out |-> Return(Str("[object Object]")),
        invoked |-> << [fn |-> f, arg |-> arg] >>]
  ELSE Call(f, arg)

\* the throw that ends both functions
NoCaseFound(tag) ==
  NoCall(Throw(NewErrorOf(<<"No case found for tag '", tag, "'">>)))

\* the body the two functions share; catchAll is 'default', resp. '*'
MatchCases(error, c, catchAll) ==
  LET tag == TagOf(error)
  IN IF TypeOf(Get(c, tag)) = "function"
     THEN CallMethod(Get(c, tag), error)
     ELSE IF In(c, catchAll) /\ TypeOf(Get(c, catchAll)) = "function"
     THEN CallMethod(Get(c, catchAll), error)
     ELSE NoCaseFound(tag)

\* handle(error, cases)
handleCases(error, c) == MatchCases(error, c, "default")

\* TaggedError.match(error, cases)
matchCases(error, c) == MatchCases(error, c, "*")

CaseKeys == Tags \cup {"default", "*"}

\* the caller holds a TaggedError and starts the object literal of its cases
StartCases(e) ==
  /\ pc' = "literal"
  /\ input' = e
  /\ cases' = EmptyCases
  /\ result' = NoResult
  /\ invoked' = <<>>
  /\ UNCHANGED <<reads, calls, registered>>

\* one more entry of the object literal
WriteCase(k, h) ==
  /\ pc = "literal"
  /\ k \notin DOMAIN cases
  /\ Cardinality(DOMAIN cases) < MaxEntries
  /\ cases' = [x \in DOMAIN cases \cup {k} |-> IF x = k THEN h ELSE cases[x]]
  /\ UNCHANGED <<pc, input, result, invoked, reads, calls, registered>>

\* handle(error, cases)
HandleCases ==
  /\ pc = "literal"
  /\ pc' = "handled"
  /\ result' = handleCases(input, cases).out
  /\ invoked' = handleCases(input, cases).invoked
  /\ UNCHANGED <<input, cases, reads, calls, registered>>

\* TaggedError.match(error, cases)
StaticMatch ==
  /\ pc = "literal"
  /\ pc' = "matched"
  /\ result' = matchCases(input, cases).out
  /\ invoked' = matchCases(input, cases).invoked
  /\ UNCHANGED <<input, cases, reads, calls, registered>>

NextTwoArg ==
  \/ \E e \in TaggedErrors : StartCases(e)
  \/ \E k \in CaseKeys : \E h \in HandlerValues(k) : WriteCase(k, h)
  \/ HandleCases
  \/ StaticMatch

SpecTwoArg == Init /\ [][NextTwoArg]_vars

----------------------------------------------------------------------------
(* The fluent builder: TaggedError.match(error).with(...) ended by         *)
(* otherwise(handler) or exhaustive()                                      *)

\* the largest number of with calls made on one builder
MaxWith == 2

\* the callbacks a caller passes to with, named by the position of the call
WithNames == <<"with1", "with2", "with3", "with4">>

\* the tags one with call lists: none, one or two
TagLists == {{}} \cup {{a, b} : a, b \in Tags}

\* this.#cases.get(key)
MapGet(m, key) == IF key \in DOMAIN m THEN m[key] ELSE Undefined

\* if (caseHandler)
Truthy(v) == v # Undefined /\ v # Null

\* a bug: a tag that already has a handler keeps it
MapSetAllKeepsFirst(m, tags, handler) ==
  [t \in DOMAIN m \cup tags |-> IF t \in DOMAIN m THEN m[t] ELSE handler]

\* for (const tag of tags) this.#cases.set(tag, handler)
MapSetAll(m, tags, handler) ==
  [t \in DOMAIN m \cup tags |-> IF t \in tags THEN handler ELSE m[t]]

\* new Error(`Exhaustive match failed for tag "${tag}"`)
ExhaustiveFailed(tag) ==
  NewErrorOf(<<"Exhaustive match failed for tag \"", tag, "\"">>)

\* a bug: otherwise goes to its own handler whatever is registered
otherwiseIgnoresCases(error, m, handler) == Call(handler, error)

\* Match.otherwise(handler)
otherwise(error, m, handler) ==
  LET caseHandler == MapGet(m, TagOf(error))
  IN IF Truthy(caseHandler) THEN Call(caseHandler, error)
     ELSE Call(handler, error)

\* Match.exhaustive()
exhaustive(error, m) ==
  LET caseHandler == MapGet(m, TagOf(error))
  IN IF Truthy(caseHandler) THEN Call(caseHandler, error)
     ELSE NoCall(Throw(ExhaustiveFailed(TagOf(error))))

\* TaggedError.match(error): new Match(error), with an empty Map of cases
Match(e) ==
  /\ pc' = "builder"
  /\ input' = e
  /\ cases' = EmptyCases
  /\ result' = NoResult
  /\ invoked' = <<>>
  /\ registered' = <<>>
  /\ UNCHANGED <<reads, calls>>

\* with(...tags, handler): returns this, so the builder goes on
With(tags, behaviour) ==
  /\ pc = "builder"
  /\ Len(registered) < MaxWith
  /\ LET handler == Callback(WithNames[Len(registered) + 1], behaviour)
     IN /\ cases' = MapSetAll(cases, tags, handler)
        /\ registered' =
             Append(registered, [tags |-> tags, handler |-> handler])
  /\ UNCHANGED <<pc, input, result, invoked, reads, calls>>

\* otherwise(handler)
Otherwise(behaviour) ==
  /\ pc = "builder"
  /\ pc' = "otherwise"
  /\ result' = otherwise(input, cases, Callback("fallback", behaviour)).out
  /\ invoked' =
       otherwise(input, cases, Callback("fallback", behaviour)).invoked
  /\ UNCHANGED <<input, cases, reads, calls, registered>>

\* exhaustive()
Exhaustive ==
  /\ pc = "builder"
  /\ pc' = "exhaustive"
  /\ result' = exhaustive(input, cases).out
  /\ invoked' = exhaustive(input, cases).invoked
  /\ UNCHANGED <<input, cases, reads, calls, registered>>

NextFluent ==
  \/ \E e \in TaggedErrors : Match(e)
  \/ \E tags \in TagLists : \E b \in {"returns", "throws"} : With(tags, b)
  \/ \E b \in {"returns", "throws"} : Otherwise(b)
  \/ Exhaustive

SpecFluent == Init /\ [][NextFluent]_vars

----------------------------------------------------------------------------
(* What the claims speak about *)

Returned == pc = "returned"

IsTagged == input \in TaggedErrors

IsPlainError == input \in PlainErrors

IsValue == input \in ValueInputs

\* the caller wrote an entry under key k
Has(k) == k \in DOMAIN cases

\* the invocations of callbacks the caller wrote into the table
CallerInvocations == SelectSeq(invoked, LAMBDA r : CallerSupplied(r.fn))

\* callback f is called once with the input and its outcome is the call's
InvokedOnce(f) ==
  /\ invoked = << [fn |-> f, arg |-> input] >>
  /\ result = IF f.msg = <<"throws">>
              THEN Throw(CbError(f, input))
              ELSE Return(CbResult(f, input))

IsInvalidHandler(r) ==
  /\ r.kind = "throw"
  /\ r.val.cls = "TypeError"
  /\ r.val.id = "fresh"
  /\ r.val.msg[1] \in {"Invalid handler provided for ",
                       "Invalid default handler provided"}

\* UnhandledTag / UnhandledError: a new error with the input as its cause
IsUnhandled(r) ==
  /\ r.kind = "throw"
  /\ r.val.cls = "TypeError"
  /\ r.val.id = "fresh"
  /\ r.val.msg[1] = "Unhandled error: ["
  /\ r.val.cause = input.id

\* the call did what the entry under key k of an error branch stands for
AppliedErrorEntry(k) ==
  IF cases[k] = StrThrow THEN result = Throw(input) /\ invoked = <<>>
  ELSE IF cases[k] = StrNull THEN result = Return(Null) /\ invoked = <<>>
  ELSE IF CallerSupplied(cases[k]) THEN InvokedOnce(cases[k])
  ELSE IsInvalidHandler(result) /\ invoked = <<>>

\* the handler an error input selects: the first that property access finds
\* among cases[tag] (for a TaggedError) and cases['error']
SelectedForError ==
  IF IsTagged /\ Get(cases, input.tag) # Undefined
  THEN Get(cases, input.tag)
  ELSE Get(cases, "error")

----------------------------------------------------------------------------
(* Claims *)

\* C1: a Value input and a table without a "value" entry: when returns the
\* input itself, whatever else the table holds.
C1_NoValueEntryReturnsInput ==
  (Returned /\ IsValue /\ ~Has("value")) => result = Return(input)

\* C2: a tagged error whose tag has an entry: when applies that entry and
\* never the "error" entry when both are present; the "error" callback is
\* not invoked.
C2_TagEntryBeforeError ==
  (Returned /\ IsTagged /\ Has(input.tag) /\ Has("error")) =>
     /\ AppliedErrorEntry(input.tag)
     /\ input.tag # "error" =>
          \A i \in 1..Len(invoked) : invoked[i].fn # cases["error"]

C2_Witness ==
  /\ Returned /\ IsTagged /\ input.tag = "TimeoutError"
  /\ Has("TimeoutError") /\ Has("error")
  /\ cases["TimeoutError"] = StrNull
  /\ cases["error"] = Callback("error", "returns")
  /\ result = Return(Null)

\* C3: a tagged error whose tag has no entry while "error" has one: when
\* applies the "error" entry to the very same instance and does not fail as
\* unhandled.
C3_ErrorEntryIsFallback ==
  (Returned /\ IsTagged /\ ~Has(input.tag) /\ Has("error")) =>
     /\ AppliedErrorEntry("error")
     /\ ~IsUnhandled(result)

\* C4: a tagged error, a table with neither an entry for its tag nor an
\* "error" entry: when fails as unhandled and invokes no handler of the
\* caller, with or without a "value" entry.
C4_UnhandledTagFails ==
  (Returned /\ IsTagged /\ ~Has(input.tag) /\ ~Has("error")) =>
     /\ IsUnhandled(result)
     /\ CallerInvocations = <<>>

\* C5: an untagged error and a table without an "error" entry: when fails
\* as unhandled and invokes nothing, even if the table has tag entries and a
\* "value" entry.
C5_UnhandledErrorFails ==
  (Returned /\ IsPlainError /\ ~Has("error")) =>
     /\ IsUnhandled(result)
     /\ invoked = <<>>

C5_Witness ==
  /\ Returned /\ IsPlainError /\ ~Has("error")
  /\ Has("TimeoutError") /\ Has("value")
  /\ cases["TimeoutError"] = Callback("TimeoutError", "returns")
  /\ cases["value"] = Callback("value", "returns")
  /\ IsUnhandled(result)

\* C6: the handler selected for an error input is the sentinel 'throw': the
\* call fails with exactly the input (same identity, not wrapped) and no
\* callback is invoked.
C6_ThrowReraisesInput ==
  (Returned /\ (IsTagged \/ IsPlainError) /\ SelectedForError = StrThrow) =>
     /\ result = Throw(input)
     /\ invoked = <<>>

C6_Witness ==
  /\ Returned /\ IsTagged /\ input.tag = "TimeoutError"
  /\ ~Has("TimeoutError") /\ Has("error") /\ Has("value")
  /\ cases["error"] = StrThrow
  /\ result = Throw(input)

\* C7: the handler selected for an error input is the sentinel 'null': the
\* call returns null, ignoring the input, and no callback is invoked.
C7_NullGivesNull ==
  (Returned /\ (IsTagged \/ IsPlainError) /\ SelectedForError = StrNull) =>
     /\ result = Return(Null)
     /\ invoked = <<>>

C7_Witness ==
  /\ Returned /\ IsPlainError
  /\ Has("error") /\ cases["error"] = StrNull
  /\ Has("value") /\ cases["value"] = Callback("value", "returns")
  /\ result = Return(Null)

\* C8: a Value input and the sentinel 'pipe' under "value": when returns
\* the input unchanged, as it does when the entry is omitted.
C8_PipeReturnsInput ==
  (Returned /\ IsValue /\ Has("value") /\ cases["value"] = StrPipe) =>
     result = Return(input)

\* C9: a Value input selects the entry under "value": a callback there is
\* invoked with exactly the input and its return is the result; no other
\* key of the table is read.
C9_ValueEntryHandlesValue ==
  (Returned /\ IsValue /\ Has("value") /\ CallerSupplied(cases["value"])) =>
     /\ InvokedOnce(cases["value"])
     /\ \A i \in 1..Len(reads) : reads[i] = "value"

\* C10: a call invokes at most one callback of the caller, at most once,
\* and when the selected handler (the tag's entry, else "error", for an
\* error; "value" for a Value) is a callback, exactly that one exactly once.
C10_OneCallbackOnce ==
  Returned =>
     /\ Len(CallerInvocations) <= 1
     /\ (~IsValue /\ CallerSupplied(SelectedForError)) =>
          CallerInvocations = << [fn |-> SelectedForError, arg |-> input] >>
     /\ (IsValue /\ Has("value") /\ CallerSupplied(cases["value"])) =>
          CallerInvocations = << [fn |-> cases["value"], arg |-> input] >>

\* h is a callback or a sentinel valid under a tag or under "error"
ValidForError(h) == h \in {StrThrow, StrNull} \/ h.t = "function"

\* h is a callback or the sentinel valid under "value"
ValidForValue(h) == h = StrPipe \/ h.t = "function"

\* the selected entry is present and neither a callback nor a valid sentinel
SelectedInvalid ==
  IF IsValue
  THEN Has("value") /\ ~ValidForValue(cases["value"])
  ELSE SelectedForError # Undefined /\ ~ValidForError(SelectedForError)

\* the key of the selected entry: the tag, "error" or "value"
SelectedKey ==
  IF IsValue THEN "value"
  ELSE IF IsTagged /\ Get(cases, input.tag) # Undefined THEN input.tag
  ELSE "error"

\* C11: validation is lazy: when fails with InvalidHandler only if the one
\* entry it selects is invalid; invalid entries that are not selected never
\* make the call fail so.
C11_LazyValidation ==
  (Returned /\ IsInvalidHandler(result)) => SelectedInvalid

\* C12: a selected entry that is present but neither a callback nor a
\* sentinel valid for its branch makes when fail with InvalidHandler, with no
\* callback invoked and no fallback to another entry.
C12_InvalidSelectedFails ==
  (Returned /\ SelectedInvalid) =>
     /\ IsInvalidHandler(result)
     /\ invoked = <<>>

\* C13: a failure raised by when carries the offending tag or key: the
\* unhandled failure carries the input (and so its tag) and InvalidHandler
\* names the exact key of the selected entry.
C13_FailureNamesKey ==
  Returned =>
     /\ (result.kind = "throw" /\ result.val.msg[1] = "Unhandled error: [")
          => result.val.cause = input.id
     /\ IsInvalidHandler(result) =>
          \E i \in 1..Len(result.val.msg) : result.val.msg[i] = SelectedKey

\* C14: classification is total and exclusive: a tagged error is dispatched
\* as Tagged with its own tag (the error branch reads "error" and the tag),
\* any other error as PlainError (only "error" is read), and every other
\* value, functions, null and undefined included, as Value (the error
\* branch is not entered).
C14_Classification ==
  Returned =>
     /\ IsTagged \/ IsPlainError \/ IsValue
     /\ IsTagged => reads = <<"error", input.tag>>
     /\ IsPlainError => reads = <<"error">>
     /\ IsValue =>
          /\ \A i \in 1..Len(reads) : reads[i] # "error"
          /\ ~IsUnhandled(result)
          /\ result # Throw(input)

C14_Witness ==
  /\ Returned /\ IsTagged /\ input.tag = "TimeoutError"
  /\ Has("error") /\ ~Has("TimeoutError")
  /\ reads = <<"error", "TimeoutError">>
  /\ invoked = << [fn |-> cases["error"], arg |-> input] >>

\* the calls of function f that the when call made
CallsOf(f) == SelectSeq(invoked, LAMBDA r : r.fn = f)

\* C15: a matcher made from a synchronous producer: each when call invokes
\* the producer exactly once and dispatches on what it returned, never on
\* the producer function itself.
C15_ProducerInvokedOnce ==
  (Returned /\ input = Producer) =>
     /\ Len(CallsOf(Producer)) = 1
     /\ \A i \in 1..Len(invoked) : invoked[i].arg # Producer

\* C16: a synchronous producer that raises: the raised value is captured
\* and dispatched as an error, so a callback under "error" handles it.
C16_ProducerThrowIsDispatched ==
  (Returned /\ input = ThrowingProducer
     /\ Has("error") /\ CallerSupplied(cases["error"])) =>
     /\ Len(CallsOf(ThrowingProducer)) = 1
     /\ \E i \in 1..Len(invoked) :
          invoked[i].fn = cases["error"] /\ InstanceOfError(invoked[i].arg)

\* C17: a pending result as input: when returns a pending result and no
\* handler is given the pending input itself; dispatch waits for the
\* settled value.
C17_PendingInputGivesPending ==
  (Returned /\ input = PendingResult) =>
     /\ result.kind = "return"
     /\ result.val.cls = "Promise"
     /\ \A i \in 1..Len(invoked) : invoked[i].arg # PendingResult

\* C18: the tag of a tagged error is the one given to its constructor, in
\* every state and for every instance of the class made for that tag; the
\* instance a handler receives reports the same tag.
C18_TagFixed ==
  input.cls = "TaggedError" =>
     /\ \E t \in Tags : input \in InstancesOf(t)
     /\ \A t \in Tags : input \in InstancesOf(t) => TagOf(input) = t
     /\ \A i \in 1..Len(invoked) :
          invoked[i].arg = input /\ TagOf(invoked[i].arg) = TagOf(input)

C18_Witness ==
  /\ Returned
  /\ input \in InstancesOf("TimeoutError") /\ input.id = "TimeoutError#2"
  /\ TagOf(input) = "TimeoutError"
  /\ Len(invoked) = 1 /\ TagOf(invoked[1].arg) = "TimeoutError"

\* C19 as claimed: a tagged error with no entry for its tag and no "error"
\* entry is given to the callback under "value".
C19_FallsThroughToValue ==
  (Returned /\ IsTagged /\ ~Has(input.tag) /\ ~Has("error")
     /\ Has("value") /\ CallerSupplied(cases["value"])) =>
     invoked = << [fn |-> cases["value"], arg |-> input] >>

\* C19 amended: a tagged error with no entry for its tag and no "error"
\* entry is never given to the "value" entry: "value" is not read and no
\* callback of the caller is invoked.
C19_NoFallThroughToValue ==
  (Returned /\ IsTagged /\ ~Has(input.tag) /\ ~Has("error")
     /\ Has("value")) =>
     /\ \A i \in 1..Len(invoked) : invoked[i].fn # cases["value"]
     /\ CallerInvocations = <<>>
     /\ \A i \in 1..Len(reads) : reads[i] # "value"

C19_Witness ==
  /\ Returned /\ IsTagged /\ input.tag = "TimeoutError"
  /\ ~Has("TimeoutError") /\ ~Has("error")
  /\ Has("value") /\ cases["value"] = Callback("value", "returns")
  /\ IsUnhandled(result) /\ invoked = <<>>

\* a failure that when raises itself
IsOwnFailure(r) ==
  /\ r.kind = "throw"
  /\ r.val.msg[1] \in {"Unhandled error: [",
                       "Invalid handler provided for ",
                       "Invalid default handler provided",
                       "No default handler provided for value"}

\* C20: when fails with the input itself only through the sentinel 'throw';
\* the unhandled and InvalidHandler failures are new errors distinct from
\* the input, the unhandled one with the input as its cause.
C20_OnlyThrowReraises ==
  Returned =>
     /\ result = Throw(input) =>
          (IsTagged \/ IsPlainError) /\ SelectedForError = StrThrow
     /\ IsOwnFailure(result) =>
          /\ result.val # input
          /\ result.val.id = "fresh"
          /\ result.val.cls = "TypeError"
     /\ (IsOwnFailure(result) /\ result.val.msg[1] = "Unhandled error: [")
          => result.val.cause = input.id

C20_Witness ==
  /\ Returned /\ IsTagged /\ input.id = "TimeoutError"
  /\ ~Has("TimeoutError") /\ ~Has("error") /\ cases = EmptyCases
  /\ IsUnhandled(result) /\ result.val # input
  /\ result.val.cause = input.id

\* C21: a when call leaves the matcher's input and the case table as they
\* were, and a later call with the same table reads the same keys, invokes
\* the same callback and yields the same outcome as the call before it.
C21_WhenLeavesStateAlone ==
  [][pc' = "returned" =>
       /\ input' = input
       /\ cases' = cases
       /\ pc = "returned" =>
            (result' = result /\ invoked' = invoked /\ reads' = reads)]_vars

C21_Witness ==
  /\ pc = "returned" /\ calls = 2
  /\ IsTagged /\ Has(input.tag) /\ Has("error")
  /\ invoked = << [fn |-> cases[input.tag], arg |-> input] >>

\* the call threw the error that ends both two-argument functions
IsNoCaseFound(r) ==
  /\ r.kind = "throw"
  /\ r.val.cls = "Error"
  /\ r.val.id = "fresh"
  /\ r.val.msg = <<"No case found for tag '", input.tag, "'">>

\* the catch-all key of the function that was called
CatchAll == IF pc = "handled" THEN "default" ELSE "*"

\* C22: handle(error, cases) and TaggedError.match(error, cases): when the
\* entry written under the error's tag is a function, it is invoked once
\* with the error and its outcome is the call's; otherwise, when the
\* catch-all entry ('default', resp. '*') is a function, that one is
\* invoked with the error; otherwise the call throws 'No case found for
\* tag'. An entry under the tag that is no function counts as absent.
C22_TagThenCatchAll ==
  pc \in {"handled", "matched"} =>
     IF Has(input.tag) /\ TypeOf(cases[input.tag]) = "function"
     THEN InvokedOnce(cases[input.tag])
     ELSE IF Has(CatchAll) /\ TypeOf(cases[CatchAll]) = "function"
     THEN InvokedOnce(cases[CatchAll])
     ELSE IsNoCaseFound(result) /\ invoked = <<>>

\* a terminal operation of the builder has run
Ended == pc \in {"otherwise", "exhaustive"}

\* the positions of the with calls that listed tag t
RegistrationsOf(t) ==
  {i \in 1..Len(registered) : t \in registered[i].tags}

\* the handler given by the last with call that listed tag t
LastRegistered(t) ==
  registered[CHOOSE i \in RegistrationsOf(t) :
               \A j \in RegistrationsOf(t) : j <= i].handler

IsExhaustiveFailed(r) ==
  /\ r.kind = "throw"
  /\ r.val.cls = "Error"
  /\ r.val.id = "fresh"
  /\ r.val.msg = <<"Exhaustive match failed for tag \"", input.tag, "\"">>

\* C23: after any sequence of with calls, otherwise and exhaustive invoke a
\* handler registered for the error's tag when there is one, once and with
\* the error, and nothing else (so never the fallback); when none is
\* registered, otherwise invokes its fallback once with the error and
\* exhaustive throws 'Exhaustive match failed' without invoking anything.
C23_TerminalUsesRegistered ==
  Ended =>
     IF RegistrationsOf(input.tag) # {}
     THEN \E i \in RegistrationsOf(input.tag) :
             InvokedOnce(registered[i].handler)
     ELSE IF pc = "otherwise"
     THEN \E b \in {"returns", "throws"} : InvokedOnce(Callback("fallback", b))
     ELSE IsExhaustiveFailed(result) /\ invoked = <<>>

\* otherwise ran after two with calls, the first of which registered the
\* error's tag, and invoked that handler
C23_Witness ==
  /\ pc = "otherwise"
  /\ Len(registered) = 2
  /\ RegistrationsOf(input.tag) = {1}
  /\ InvokedOnce(registered[1].handler)

\* C24: registrations accumulate on the one builder and the last one wins:
\* a terminal operation invokes the handler of the last with call that
\* listed the error's tag, whether the tag stood alone or beside another
\* tag in that call, and whatever earlier calls registered for it.
C24_LastRegistrationWins ==
  (Ended /\ RegistrationsOf(input.tag) # {}) =>
     invoked = << [fn |-> LastRegistered(input.tag), arg |-> input] >>

\* exhaustive ran after two with calls that both listed the error's tag,
\* the second beside another tag, and invoked the second handler
C24_Witness ==
  /\ pc = "exhaustive"
  /\ RegistrationsOf(input.tag) = {1, 2}
  /\ Cardinality(registered[2].tags) = 2
  /\ invoked = << [fn |-> registered[2].handler, arg |-> input] >>

\* C25: branches stay apart under key collisions: the callback written
\* under "value" is never invoked with an error, and a callback written
\* under a tag or under "error" is never invoked with a value that is no
\* error, also when a tag is spelled like a reserved key.
C25_BranchIsolation ==
  Returned =>
     \A i \in 1..Len(invoked) :
        /\ (Has("value") /\ invoked[i].fn = cases["value"])
             => ~InstanceOfError(invoked[i].arg)
        /\ (\E k \in DOMAIN cases \ {"value"} : invoked[i].fn = cases[k])
             => InstanceOfError(invoked[i].arg)

\* C26: lookup selects only entries the caller wrote: for a tagged error
\* whose tag has no entry no inherited function is invoked, also when the
\* tag names a property every object inherits; the call goes to the "error"
\* entry or fails as unhandled.
C26_OnlyOwnEntries ==
  (Returned /\ IsTagged /\ ~Has(input.tag)) =>
     /\ \A i \in 1..Len(invoked) : CallerSupplied(invoked[i].fn)
     /\ IF Has("error") THEN AppliedErrorEntry("error")
        ELSE IsUnhandled(result)

====
